---- MODULE Spec2Model ----
(***************************************************************************)
(* A model of repo_art/sonifier.py (class MusicGenerator): the rendering   *)
(* of a commit list into a sample buffer and its encoding as 16-bit PCM.   *)
(*                                                                         *)
(* Python floats are IEEE-754 binary floating point numbers.  They are     *)
(* modelled as pairs <<m, e>> standing for m * 2^e, with a mantissa of     *)
(* Precision bits and every operation rounded to nearest, ties to even,    *)
(* as the hardware does it.  The exponent is unbounded (no value of the    *)
(* program comes near overflow or underflow) and -0.0 is identified with   *)
(* 0.0, which Python's == does as well.                                    *)
(***************************************************************************)
EXTENDS Integers, Sequences, FiniteSets, TLC

\* Mantissa width of the modelled floats (binary64 has 53, binary32 has 24).
\* The arithmetic below is exact for 17 <= Precision <= 26.
Precision == 24

----------------------------------------------------------------------------
(* Floating point arithmetic *)

Abs(n) == IF n < 0 THEN -n ELSE n

Sgn(n) == IF n < 0 THEN -1 ELSE IF n > 0 THEN 1 ELSE 0

RECURSIVE BitLen(_)
BitLen(n) ==
    IF n = 0 THEN 0
    ELSE IF n >= 65536 THEN 16 + BitLen(n \div 65536)
    ELSE IF n >= 256 THEN 8 + BitLen(n \div 256)
    ELSE IF n >= 16 THEN 4 + BitLen(n \div 16)
    ELSE 1 + BitLen(n \div 2)

FZero == <<0, 0>>

\* Round to nearest, ties to even: q is the mantissa cut to Precision bits,
\* r the bits cut off and half the weight of the first of them.
RoundUp(sign, e, q, r, half) ==
    IF r > half \/ (r = half /\ q % 2 = 1)
    THEN IF q + 1 = 2^Precision
         THEN <<sign * 2^(Precision - 1), e + 1>>
         ELSE <<sign * (q + 1), e>>
    ELSE <<sign * q, e>>

RoundAt(sign, M, e, L) ==
    IF L <= Precision
    THEN <<sign * M * 2^(Precision - L), e - (Precision - L)>>
    ELSE RoundUp(sign, e + L - Precision, M \div 2^(L - Precision),
                 M % 2^(L - Precision), 2^(L - Precision - 1))

\* The float nearest to sign * M * 2^e, for an integer M > 0.  An odd M of
\* more than Precision + 1 bits also stands for any value strictly between
\* M - 1 and M + 1 (a sticky last bit).
RoundMag(sign, M, e) == RoundAt(sign, M, e, BitLen(M))

\* int -> float (exact below 2^Precision, rounded above).
FromInt(n) == IF n = 0 THEN FZero ELSE RoundMag(Sgn(n), Abs(n), 0)

FNeg(x) == <<-x[1], x[2]>>

FAbs(x) == <<Abs(x[1]), x[2]>>

FLt(x, y) ==
    IF Sgn(x[1]) # Sgn(y[1]) THEN Sgn(x[1]) < Sgn(y[1])
    ELSE IF x[1] = 0 THEN FALSE
    ELSE IF x[1] > 0 THEN x[2] < y[2] \/ (x[2] = y[2] /\ x[1] < y[1])
    ELSE x[2] > y[2] \/ (x[2] = y[2] /\ x[1] < y[1])

FLe(x, y) == x = y \/ FLt(x, y)

\* The mantissa B8 shifted right with its last bit sticky.
Aligned(B8, shift) ==
    IF shift > Precision + 3 THEN 1
    ELSE 2 * (B8 \div 2^shift) + (IF B8 % 2^shift = 0 THEN 0 ELSE 1)

AddRound(a, S) == IF S = 0 THEN FZero ELSE RoundMag(Sgn(a[1]), S, a[2] - 4)

\* a + b for |a| >= |b| > 0: b is aligned to a with four guard bits.
AddOrdered(a, b) ==
    AddRound(a, IF Sgn(a[1]) = Sgn(b[1])
                THEN Abs(a[1]) * 16 + Aligned(Abs(b[1]) * 8, a[2] - b[2])
                ELSE Abs(a[1]) * 16 - Aligned(Abs(b[1]) * 8, a[2] - b[2]))

FAdd(x, y) ==
    IF x[1] = 0 THEN y
    ELSE IF y[1] = 0 THEN x
    ELSE IF x[2] < y[2] \/ (x[2] = y[2] /\ Abs(x[1]) < Abs(y[1]))
         THEN AddOrdered(y, x)
    ELSE AddOrdered(x, y)

FSub(x, y) == FAdd(x, FNeg(y))

\* top * 2^26 + rest cut to Precision + 3 bits and a sticky bit.
MulCut(sign, e, top, rest, k) ==
    RoundMag(sign,
             2 * (top * 2^k + rest \div 2^(26 - k))
             + (IF rest % 2^(26 - k) = 0 THEN 0 ELSE 1),
             e + 26 - k - 1)

MulTop(sign, e, top, rest) ==
    IF top = 0 THEN RoundMag(sign, rest, e)
    ELSE MulCut(sign, e, top, rest, Precision + 3 - BitLen(top))

MulJoin(sign, e, hi, cross, lowpart) ==
    MulTop(sign, e, hi + cross \div 8192 + lowpart \div 67108864,
           lowpart % 67108864)

MulParts(sign, e, a1, a0, b1, b0) ==
    MulJoin(sign, e, a1 * b1, a1 * b0 + a0 * b1,
            ((a1 * b0 + a0 * b1) % 8192) * 8192 + a0 * b0)

\* x * y: the exact product of the mantissas, computed in halves of 13 bits.
FMul(x, y) ==
    IF x[1] = 0 \/ y[1] = 0 THEN FZero
    ELSE MulParts(Sgn(x[1]) * Sgn(y[1]), x[2] + y[2],
                  Abs(x[1]) \div 8192, Abs(x[1]) % 8192,
                  Abs(y[1]) \div 8192, Abs(y[1]) % 8192)

\* n more hexadecimal digits of the quotient q, r being the remainder.
RECURSIVE DivDigits(_, _, _, _)
DivDigits(r, b, q, n) ==
    IF n = 0 THEN <<q, r>>
    ELSE DivDigits((r * 16) % b, b, q * 16 + (r * 16) \div b, n - 1)

DivRound(sign, e, d) ==
    RoundMag(sign, 2 * d[1] + (IF d[2] = 0 THEN 0 ELSE 1), e)

\* x / y for y # 0 (Python raises ZeroDivisionError for y = 0; no division
\* of the program reaches it): long division to 28 bits and a sticky bit.
FDiv(x, y) ==
    IF x[1] = 0 THEN FZero
    ELSE DivRound(Sgn(x[1]) * Sgn(y[1]), x[2] - y[2] - 29,
                  DivDigits(Abs(x[1]) % Abs(y[1]), Abs(y[1]),
                            Abs(x[1]) \div Abs(y[1]), 7))

\* int(x): truncation toward zero.
Trunc(x) ==
    IF x[2] >= 0 THEN x[1] * 2^x[2]
    ELSE IF -x[2] > 30 THEN 0
    ELSE Sgn(x[1]) * (Abs(x[1]) \div 2^(-x[2]))

\* round(x): the nearest integer, ties to even.
RoundInt(x) ==
    IF x[2] >= 0 THEN x[1] * 2^x[2]
    ELSE IF -x[2] > 30 THEN 0
    ELSE IF Abs(x[1]) % 2^(-x[2]) > 2^(-x[2] - 1)
            \/ (Abs(x[1]) % 2^(-x[2]) = 2^(-x[2] - 1)
                /\ (Abs(x[1]) \div 2^(-x[2])) % 2 = 1)
         THEN Sgn(x[1]) * (Abs(x[1]) \div 2^(-x[2]) + 1)
    ELSE Sgn(x[1]) * (Abs(x[1]) \div 2^(-x[2]))

\* The float a decimal literal n/d denotes, and the quotient of two ints.
Lit(n, d) == FDiv(FromInt(n), FromInt(d))

\* Python's min(a, b) and max(a, b) of two floats: the first argument wins
\* unless the second is strictly smaller (larger).
PyMin(a, b) == IF FLt(b, a) THEN b ELSE a

PyMax(a, b) == IF FLt(a, b) THEN b ELSE a

One == FromInt(1)

Two == FromInt(2)

Three == FromInt(3)

Half == Lit(1, 2)

\* math.pi: the float nearest to pi (103993/33102 agrees with pi to 5.8e-10).
Pi == Lit(103993, 33102)

TwoPi == FMul(Two, Pi)

\* The integers of Bhaskara's formula.
Four == FromInt(4)

Five == FromInt(5)

Sixteen == FromInt(16)

\* sin(pi * p) for 0 <= p <= 1 by Bhaskara's rational approximation,
\* 16 q / (5 - 4 q) with q = p (1 - p): it is 0 at p = 0 and p = 1, 1 at
\* p = 1/2, never outside [0, 1], and within 0.002 of the sine.
BhaskaraQ(q) ==
    FDiv(FMul(Sixteen, q), FSub(Five, FMul(Four, q)))

Bhaskara(p) == BhaskaraQ(FMul(p, FSub(One, p)))

\* The sine of frac turns, 0 <= frac < 1.
SinTurn(frac) ==
    IF FLt(frac, Half) THEN Bhaskara(FMul(Two, frac))
    ELSE FNeg(Bhaskara(FSub(FMul(Two, frac), One)))

FracPart(turns) == FSub(turns, FromInt(Trunc(turns)))

WithSign(negative, v) == IF negative THEN FNeg(v) ELSE v

\* math.sin(x)
Sin(x) == WithSign(x[1] < 0, SinTurn(FracPart(FDiv(FAbs(x), TwoPi))))

----------------------------------------------------------------------------
(* MusicGenerator._adsr_envelope *)

\* The literals 0.01, 0.02, 0.05, 0.1, 0.2 and 0.3.
Hundredth == Lit(1, 100)

TwoHundredths == Lit(2, 100)

FiveHundredths == Lit(5, 100)

Tenth == Lit(1, 10)

TwoTenths == Lit(2, 10)

ThreeTenths == Lit(3, 10)

attack_time(duration) == PyMin(Hundredth, FMul(duration, Tenth))

decay_time(duration) == PyMin(TwoHundredths, FMul(duration, TwoTenths))

release_time(duration) == PyMin(FiveHundredths, FMul(duration, ThreeTenths))

sustain_level == Lit(7, 10)

\* Attack: 0 -> 1
AttackValue(t, attack) == FDiv(t, attack)

\* Decay: 1 -> sustain
DecayValue(t, attack, decay) ==
    FSub(One, FMul(FSub(One, sustain_level), FDiv(FSub(t, attack), decay)))

\* Faulty variant: the release ramp without the sustain factor.
ReleaseUnscaled(t, duration, release) ==
    FSub(One, FDiv(FSub(t, FSub(duration, release)), release))

\* Release: sustain -> 0
ReleaseValue(t, duration, release) ==
    FMul(sustain_level,
         FSub(One, FDiv(FSub(t, FSub(duration, release)), release)))

Envelope(t, duration, attack, decay, release) ==
    IF FLt(t, attack) THEN AttackValue(t, attack)
    ELSE IF FLt(t, FAdd(attack, decay)) THEN DecayValue(t, attack, decay)
    ELSE IF FLt(t, FSub(duration, release)) THEN sustain_level
    ELSE ReleaseValue(t, duration, release)

adsr_envelope(t, duration) ==
    Envelope(t, duration, attack_time(duration), decay_time(duration),
             release_time(duration))

----------------------------------------------------------------------------
(* MusicGenerator._generate_sonification: the values of one render *)

RECURSIVE SeqMin(_)
SeqMin(s) ==
    IF Len(s) = 1 THEN s[1]
    ELSE IF SeqMin(Tail(s)) < s[1] THEN SeqMin(Tail(s)) ELSE s[1]

RECURSIVE SeqMax(_)
SeqMax(s) ==
    IF Len(s) = 1 THEN s[1]
    ELSE IF SeqMax(Tail(s)) > s[1] THEN SeqMax(Tail(s)) ELSE s[1]

timestamps(cs) == [k \in 1..Len(cs) |-> cs[k].timestamp]

min_time(cs) == SeqMin(timestamps(cs))

max_time(cs) == SeqMax(timestamps(cs))

OrOne(n) == IF n = 0 THEN 1 ELSE n

\* max_time - min_time or 1
time_range(cs) == OrOne(max_time(cs) - min_time(cs))

Activity(c) == c.additions + c.deletions

\* max(c["additions"] + c["deletions"] for c in commits) or 1
max_activity(cs) == OrOne(SeqMax([k \in 1..Len(cs) |-> Activity(cs[k])]))

\* min(60.0, len(commits) * self.duration_per_commit)
Sixty == FromInt(60)

total_duration(n, duration) == PyMin(Sixty, FMul(FromInt(n), duration))

\* Faulty variant: the sample count rounded instead of truncated.
RoundedSamples(n, duration, rate) ==
    RoundInt(FMul(total_duration(n, duration), FromInt(rate)))

\* int(total_duration * self.sample_rate)
TotalSamples(n, duration, rate) ==
    Trunc(FMul(total_duration(n, duration), FromInt(rate)))

\* [0.0] * total_samples: a non-positive count gives the empty list.
Zeros(n) == [k \in 1..n |-> FZero]

\* Faulty variant: the position normalized to [0, 1), short of the end.
ShortOfEnd(c, cs) == Lit(c.timestamp - min_time(cs), time_range(cs) + 1)

t_norm(c, cs) == Lit(c.timestamp - min_time(cs), time_range(cs))

\* int(t_norm * total_samples)
StartSample(c, cs, total) == Trunc(FMul(t_norm(c, cs), FromInt(total)))

\* The literal 1.5.
OneAndHalf == Lit(3, 2)

\* Faulty variant: the ratio of the deletions instead of the additions.
SwappedMultiplier(c) ==
    IF Activity(c) > 0
    THEN FAdd(Half, FMul(Lit(c.deletions, Activity(c)), OneAndHalf))
    ELSE One

frequency_multiplier(c) ==
    IF Activity(c) > 0
    THEN FAdd(Half, FMul(Lit(c.additions, Activity(c)), OneAndHalf))
    ELSE One

\* min(1.0, (activity / max_activity) * 0.5)
Volume(c, cs) == PyMin(One, FMul(Lit(Activity(c), max_activity(cs)), Half))

\* int(note_duration * self.sample_rate)
NoteSamples(duration, rate) == Trunc(FMul(duration, FromInt(rate)))

\* The sine wave with its 2nd and 3rd harmonics at time t, w being
\* 2 * math.pi * frequency.
Harmonics(t, w) ==
    FAdd(FAdd(FAdd(FZero, Sin(FMul(w, t))),
              FMul(ThreeTenths, Sin(FMul(FMul(w, Two), t)))),
         FMul(Tenth, Sin(FMul(FMul(w, Three), t))))

NoteAt(t, w, volume, duration) ==
    FMul(FMul(Harmonics(t, w), FMul(adsr_envelope(t, duration), volume)),
         ThreeTenths)

\* The i-th sample of a note as it is added to the buffer: the harmonics
\* under the envelope, times the volume, times 0.3.
NoteSample(i, frequency, volume, duration, rate) ==
    NoteAt(Lit(i, rate), FMul(TwoPi, frequency), volume, duration)

\* Faulty variant: no break at the end of the buffer, the index wraps to
\* the beginning.
WrappedWritten(start, count, total) ==
    {j \in 0..(total - 1) : \E i \in 0..(count - 1) : j = (start + i) % total}

\* The indices a note writes: range(note_samples) up to the break at
\* start_sample + i >= total_samples.
Written(start, count, total) ==
    {j \in 0..(total - 1) : start <= j /\ j < start + count}

\* Faulty variant: the note replaces what the buffer holds (= instead of +=).
OverwriteNote(buf, start, count, total, frequency, volume, duration, rate) ==
    [k \in 1..Len(buf) |->
        IF (k - 1) \in Written(start, count, total)
        THEN NoteSample(k - 1 - start, frequency, volume, duration, rate)
        ELSE buf[k]]

\* audio[start_sample + i] += sample * 0.3, for every i of the note's loop
MixNote(buf, start, count, total, frequency, volume, duration, rate) ==
    [k \in 1..Len(buf) |->
        IF (k - 1) \in Written(start, count, total)
        THEN FAdd(buf[k], NoteSample(k - 1 - start, frequency, volume,
                                     duration, rate))
        ELSE buf[k]]

\* max(abs(s) for s in audio), for a non-empty buffer
RECURSIVE PeakOf(_)
PeakOf(buf) ==
    IF Len(buf) = 1 THEN FAbs(buf[1])
    ELSE PyMax(FAbs(buf[1]), PeakOf(Tail(buf)))

\* max(abs(s) for s in audio) or 1.0
MaxVal(buf) == IF PeakOf(buf) = FZero THEN One ELSE PeakOf(buf)

\* Faulty variant: the division without its condition.
ScaledAlways(buf, max_val) == [k \in 1..Len(buf) |-> FDiv(buf[k], max_val)]

\* if max_val > 1.0: audio = [s / max_val for s in audio]
Scaled(buf, max_val) ==
    IF FLt(One, max_val) THEN [k \in 1..Len(buf) |-> FDiv(buf[k], max_val)]
    ELSE buf

\* Faulty variant: no normalization.
Unscaled(buf) == buf

Normalized(buf) == Scaled(buf, MaxVal(buf))

----------------------------------------------------------------------------
(* MusicGenerator._write_wav *)

\* Faulty variant: no clamping.
Unclamped(sample) == sample

\* max(-1.0, min(1.0, sample))
Clamp(sample) == PyMax(FNeg(One), PyMin(One, sample))

\* int(sample * 32767)
FullScale == FromInt(32767)

IntSample(sample) == Trunc(FMul(Clamp(sample), FullScale))

\* struct.pack('<h', v) takes a signed 16-bit value and raises struct.error
\* for any other.
Packable(v) == -32768 <= v /\ v <= 32767

Encoded(buf) == [k \in 1..Len(buf) |-> IntSample(buf[k])]

----------------------------------------------------------------------------
(* The state: a MusicGenerator, the commit list handed to it, and the call
   in progress *)

\* Bounds of the model.
MaxCommits == 3

MaxBurst == 9

VARIABLES
    sample_rate,          \* self.sample_rate
    duration_per_commit,  \* self.duration_per_commit
    base_frequency,       \* self.base_frequency
    commits,              \* features["commits"]
    entry,                \* the method called, "none" before any call
    pc,                   \* where the call is
    total_samples,        \* _generate_sonification: total_samples
    audio,                \* _generate_sonification: audio; _write_wav: samples
    notes,                \* per commit mixed so far, the values of its iteration
    mixed,                \* the buffer as the mixing loop left it
    frames,               \* the frames written to the WAV file, in order
    output,               \* the output file: "none", "empty" or "wav"
    error,                \* the exception that ended the call, or "none"
    env,                  \* the arguments and the result of an _adsr_envelope call
    calls,                \* the calls of generate() completed before this one
    first                 \* what the first call of generate() left

vars == <<sample_rate, duration_per_commit, base_frequency, commits, entry, pc,
          total_samples, audio, notes, mixed, frames, output, error, env,
          calls, first>>

config == <<sample_rate, duration_per_commit, base_frequency>>

\* The configurations tried: <<sample_rate, n, d>> for a duration_per_commit
\* of n/d seconds.
Configs ==
    { <<7, 1, 2>>, <<1, 1, 10>>, <<1, 7, 1>>,
      <<0, 1, 2>>, <<-7, 1, 2>>, <<7, 0, 1>>, <<7, -1, 2>>, <<-7, -1, 2>> }

\* The commits tried, as analyzer._get_commits builds them.
Commit(ts, add, del) == [timestamp |-> ts, additions |-> add, deletions |-> del]

Events ==
    { Commit(0, 1, 0), Commit(0, 0, 0), Commit(7, 0, 1), Commit(8, 2, 1) }

\* The durations and sample lists the direct calls are tried with.
Durations ==
    { Lit(1, 100), Lit(1, 10), Lit(15, 100), Lit(1, 2), One, FromInt(2),
      FromInt(7) }

EnvelopePoints(d) ==
    { FZero, attack_time(d), FAdd(attack_time(d), decay_time(d)),
      FSub(d, release_time(d)), d, FMul(d, Half), FMul(d, Lit(1, 20)),
      FMul(d, Lit(1, 4)), FMul(d, Lit(9, 10)) }

SampleValues ==
    { FZero, Lit(1, 2), Lit(-1, 2), One, FNeg(One), Lit(3, 2), FromInt(-2),
      Lit(3, 10), Lit(-999, 1000) }

SampleLists ==
    { <<v>> : v \in SampleValues } \cup
    { <<v, w>> : v \in {Lit(3, 2), Lit(3, 10)}, w \in SampleValues }

Init ==
    /\ \E c \in Configs :
         /\ sample_rate = c[1]
         /\ duration_per_commit = Lit(c[2], c[3])
    /\ base_frequency = FromInt(220)
    /\ commits = << >>
    /\ entry = "none"
    /\ pc = "idle"
    /\ total_samples = 0
    /\ audio = << >>
    /\ notes = << >>
    /\ mixed = << >>
    /\ frames = << >>
    /\ output = "none"
    /\ error = "none"
    /\ env = << >>
    /\ calls = 0
    /\ first = << >>

----------------------------------------------------------------------------
(* The caller builds the commit list *)

AddCommit ==
    /\ pc = "idle" /\ calls = 0
    /\ Len(commits) < MaxCommits
    /\ \E c \in Events : commits' = Append(commits, c)
    /\ UNCHANGED <<sample_rate, duration_per_commit, base_frequency, entry, pc,
                   total_samples, audio, notes, mixed, frames, output, error,
                   env, calls, first>>

\* A longer list of one commit repeated.
AddDuplicate ==
    /\ pc = "idle" /\ calls = 0
    /\ Len(commits) >= MaxCommits /\ Len(commits) < MaxBurst
    /\ \A k \in 1..Len(commits) : commits[k] = commits[1]
    /\ commits' = Append(commits, commits[1])
    /\ UNCHANGED <<sample_rate, duration_per_commit, base_frequency, entry, pc,
                   total_samples, audio, notes, mixed, frames, output, error,
                   env, calls, first>>

----------------------------------------------------------------------------
(* _write_wav(output_path, samples): wave.open creates the file;
   setframerate refuses a rate <= 0 with wave.Error and the file stays
   empty; otherwise one frame is written per sample. *)

WriteWavRaises(buf) ==
    IF sample_rate <= 0 THEN "wave.Error"
    ELSE IF \E k \in 1..Len(buf) : ~Packable(IntSample(buf[k]))
         THEN "struct.error"
    ELSE "none"

WavWritten(buf, raised) ==
    /\ error' = raised
    /\ pc' = IF raised = "none" THEN "done" ELSE "raised"
    /\ output' = IF sample_rate <= 0 THEN "empty" ELSE "wav"
    /\ frames' = IF raised = "none" THEN Encoded(buf) ELSE << >>

WriteWavEffect(buf) == WavWritten(buf, WriteWavRaises(buf))

\* _write_wav called on its own.
CallWriteWav ==
    /\ pc = "idle" /\ calls = 0 /\ commits = << >>
    /\ \E buf \in SampleLists :
         /\ audio' = buf
         /\ WriteWavEffect(buf)
    /\ entry' = "_write_wav"
    /\ UNCHANGED <<sample_rate, duration_per_commit, base_frequency, commits,
                   total_samples, notes, mixed, env, calls, first>>

\* _adsr_envelope called on its own.
CallEnvelope ==
    /\ pc = "idle" /\ calls = 0 /\ commits = << >>
    /\ \E d \in Durations : \E t \in EnvelopePoints(d) :
         env' = [t |-> t, duration |-> d, value |-> adsr_envelope(t, d)]
    /\ entry' = "_adsr_envelope"
    /\ pc' = "done"
    /\ UNCHANGED <<sample_rate, duration_per_commit, base_frequency, commits,
                   total_samples, audio, notes, mixed, frames, output, error,
                   calls, first>>

\* _generate_sonification called on its own with no commits: return [].
CallSonifyEmpty ==
    /\ pc = "idle" /\ calls = 0 /\ commits = << >>
    /\ entry' = "_generate_sonification"
    /\ audio' = << >>
    /\ pc' = "done"
    /\ UNCHANGED <<sample_rate, duration_per_commit, base_frequency, commits,
                   total_samples, notes, mixed, frames, output, error, env,
                   calls, first>>

----------------------------------------------------------------------------
(* generate(features, output_path) *)

\* Faulty variant: no samples at all for an empty list.
NoSamples(duration) == << >>

\* No commits: _write_silence(output_path, 1.0).
SilenceSamples(duration) == Zeros(Trunc(FMul(duration, FromInt(sample_rate))))

GenerateSilence ==
    /\ pc = "idle" /\ commits = << >>
    /\ entry' = "generate"
    /\ audio' = SilenceSamples(One)
    /\ WriteWavEffect(audio')
    /\ UNCHANGED <<sample_rate, duration_per_commit, base_frequency, commits,
                   total_samples, notes, mixed, env, calls, first>>

\* Faulty variant: a buffer of the right length left by an earlier call is
\* used again instead of a fresh one.
GenerateStartReusing ==
    /\ pc = "idle" /\ commits # << >>
    /\ entry' = "generate"
    /\ total_samples' = TotalSamples(Len(commits), duration_per_commit, sample_rate)
    /\ audio' = IF Len(audio) = total_samples' THEN audio
                ELSE Zeros(total_samples')
    /\ notes' = << >>
    /\ mixed' = << >>
    /\ pc' = "mix"
    /\ UNCHANGED <<sample_rate, duration_per_commit, base_frequency, commits,
                   frames, output, error, env, calls, first>>

\* Commits: _generate_sonification up to the allocation of the buffer.
GenerateStart ==
    /\ pc = "idle" /\ commits # << >>
    /\ entry' = "generate"
    /\ total_samples' = TotalSamples(Len(commits), duration_per_commit, sample_rate)
    /\ audio' = Zeros(total_samples')
    /\ notes' = << >>
    /\ mixed' = << >>
    /\ pc' = "mix"
    /\ UNCHANGED <<sample_rate, duration_per_commit, base_frequency, commits,
                   frames, output, error, env, calls, first>>

\* The values one iteration of "for commit in commits" computes before
\* its note is written.
Note(commit) ==
    [start_sample |-> StartSample(commit, commits, total_samples),
     frequency_multiplier |-> frequency_multiplier(commit),
     volume |-> Volume(commit, commits),
     note_samples |-> NoteSamples(duration_per_commit, sample_rate)]

\* One iteration of "for commit in commits".
MixCommit ==
    /\ pc = "mix" /\ Len(notes) < Len(commits)
    /\ notes' = Append(notes, Note(commits[Len(notes) + 1]))
    /\ audio' = MixNote(audio, notes'[Len(notes')].start_sample,
                        notes'[Len(notes')].note_samples, total_samples,
                        FMul(base_frequency,
                             notes'[Len(notes')].frequency_multiplier),
                        notes'[Len(notes')].volume,
                        duration_per_commit, sample_rate)
    /\ UNCHANGED <<sample_rate, duration_per_commit, base_frequency, commits,
                   entry, pc, total_samples, mixed, frames, output, error, env,
                   calls, first>>

\* After the loop: max() of an empty buffer raises ValueError; otherwise the
\* buffer is normalized and returned to generate().
Normalize ==
    /\ pc = "mix" /\ Len(notes) = Len(commits)
    /\ mixed' = audio
    /\ IF audio = << >>
       THEN /\ pc' = "raised"
            /\ error' = "ValueError"
            /\ audio' = audio
       ELSE /\ pc' = "write"
            /\ error' = error
            /\ audio' = Normalized(audio)
    /\ UNCHANGED <<sample_rate, duration_per_commit, base_frequency, commits,
                   entry, total_samples, notes, frames, output, env, calls,
                   first>>

\* self._write_wav(output_path, samples)
WriteWav ==
    /\ pc = "write"
    /\ WriteWavEffect(audio)
    /\ UNCHANGED <<sample_rate, duration_per_commit, base_frequency, commits,
                   entry, total_samples, audio, notes, mixed, env, calls, first>>

\* generate() is called a second time, on the same generator and list.
GenerateAgain ==
    /\ entry = "generate" /\ pc \in {"done", "raised"} /\ calls = 0
    /\ calls' = 1
    /\ first' = [audio |-> audio, frames |-> frames, output |-> output,
                 error |-> error, pc |-> pc]
    /\ entry' = "none"
    /\ pc' = "idle"
    /\ error' = "none"
    /\ UNCHANGED <<sample_rate, duration_per_commit, base_frequency, commits,
                   total_samples, audio, notes, mixed, frames, output, env>>

Next ==
    \/ AddCommit
    \/ AddDuplicate
    \/ CallWriteWav
    \/ CallEnvelope
    \/ CallSonifyEmpty
    \/ GenerateSilence
    \/ GenerateStart
    \/ MixCommit
    \/ Normalize
    \/ WriteWav

Spec == Init /\ [][Next]_vars

SpecTwice == Init /\ [][Next \/ GenerateAgain]_vars

----------------------------------------------------------------------------
(* Properties of the render *)

\* Both settings of the generator are positive.
Positive == sample_rate > 0 /\ FLt(FZero, duration_per_commit)

\* generate() has a buffer that _generate_sonification returned for a
\* non-empty list.
Rendered == entry = "generate" /\ commits # << >> /\ pc \in {"write", "done"}

InUnitRange(x) == FLe(FNeg(One), x) /\ FLe(x, One)

\* C1: every sample of the buffer the render returns, for an empty list or
\* not, lies in [-1.0, 1.0], however many notes overlap at one index.
C1_SamplesInRange ==
    (entry = "generate" /\ pc \in {"write", "done"}) =>
        \A k \in 1..Len(audio) : InUnitRange(audio[k])

\* Overlapping notes have pushed the mixed buffer above 1.0 and the render
\* has returned it normalized.
C1_Witness ==
    /\ Rendered /\ Positive /\ pc = "write"
    /\ FLt(One, PeakOf(mixed))
    /\ audio # mixed

\* min(60.0, N * duration_per_commit) * sample_rate, as a float
RenderLength ==
    FMul(PyMin(FromInt(60), FMul(FromInt(Len(commits)), duration_per_commit)),
         FromInt(sample_rate))

\* C2 as claimed: the buffer returned for a non-empty list of N events has
\* round(min(60.0, N * duration_per_commit) * sample_rate) samples.
C2_LengthRounded ==
    (Rendered /\ Positive) => Len(audio) = RoundInt(RenderLength)

\* C2, amended: the buffer returned for a non-empty list of N events has
\* int(min(60.0, N * duration_per_commit) * sample_rate) samples, the product
\* truncated and not rounded, and never more than 60 seconds' worth.
C2_LengthTruncated ==
    (Rendered /\ Positive) =>
        /\ FLe(FromInt(Len(audio)), RenderLength)
        /\ FLt(RenderLength, FromInt(Len(audio) + 1))
        /\ Len(audio) <= 60 * sample_rate

\* A render whose length is not the rounded product: 3 samples for 3.5.
C2_Witness ==
    /\ Rendered /\ Positive
    /\ Len(audio) # RoundInt(RenderLength)
    /\ Len(audio) = total_samples

\* C3: generate() with an empty list writes exactly sample_rate samples, one
\* second, every one 0.0, and does not raise.
C3_EmptyListSilence ==
    (entry = "generate" /\ commits = << >> /\ sample_rate > 0) =>
        /\ pc = "done" /\ error = "none" /\ output = "wav"
        /\ Len(audio) = sample_rate
        /\ \A k \in 1..Len(audio) : audio[k] = FZero
        /\ frames = [k \in 1..sample_rate |-> 0]

\* generate() has written the silence of an empty list.
C3_Witness ==
    /\ entry = "generate" /\ commits = << >> /\ pc = "done"
    /\ Len(frames) = sample_rate /\ sample_rate > 1

\* The multiplier m of commit c is what C4 says it is; the quotient and the
\* product of the formula are floats, so m is compared with
\* (activity + 3 * additions) / (2 * activity) to within their rounding.
MultiplierAsClaimed(c, m) ==
    /\ Activity(c) = 0 => m = One
    /\ (c.deletions = 0 /\ c.additions > 0) => m = FromInt(2)
    /\ (c.additions = 0 /\ c.deletions > 0) => m = Half
    /\ FLe(Half, m) /\ FLe(m, FromInt(2))
    /\ Activity(c) > 0 =>
           FLe(FAbs(FSub(FMul(m, FromInt(2 * Activity(c))),
                         FromInt(Activity(c) + 3 * c.additions))),
               Lit(Activity(c), 2^(Precision - 4)))

\* C4: the frequency multiplier of every commit is
\* 0.5 + 1.5 * additions / (additions + deletions) when its activity is
\* positive and exactly 1.0 when it is zero; it lies in [0.5, 2.0], is exactly
\* 2.0 for additions only and exactly 0.5 for deletions only.
C4_FrequencyMultiplier ==
    \A k \in 1..Len(notes) :
        MultiplierAsClaimed(commits[k], notes[k].frequency_multiplier)

\* The notes of a commit of additions only, one of deletions only and one
\* of both have been computed.
C4_Witness ==
    /\ entry = "generate" /\ Len(notes) = 3
    /\ \E k \in 1..3 : commits[k].deletions = 0 /\ commits[k].additions > 0
    /\ \E k \in 1..3 : commits[k].additions = 0 /\ commits[k].deletions > 0
    /\ \E k \in 1..3 : commits[k].additions > commits[k].deletions
                       /\ commits[k].deletions > 0

\* The sample a note alone puts at index j of the buffer, and whether it
\* puts one there.
SampleOf(note, j) ==
    NoteSample(j - note.start_sample,
               FMul(base_frequency, note.frequency_multiplier),
               note.volume, duration_per_commit, sample_rate)

CoveredBy(note, j) ==
    j \in Written(note.start_sample, note.note_samples, total_samples)

NoteAlone(n, j) == SampleOf(notes[n], j)

Covers(n, j) == CoveredBy(notes[n], j)

\* The sum, in the order of the list, of what the first n notes put at
\* index j.
RECURSIVE SumOfNotes(_, _)
SumOfNotes(j, n) ==
    IF n = 0 THEN FZero
    ELSE IF Covers(n, j) THEN FAdd(SumOfNotes(j, n - 1), NoteAlone(n, j))
    ELSE SumOfNotes(j, n - 1)

SameStart ==
    \A i, j \in 1..Len(notes) :
        commits[i].timestamp = commits[j].timestamp =>
            notes[i].start_sample = notes[j].start_sample

Summed == \A k \in 1..Len(audio) : audio[k] = SumOfNotes(k - 1, Len(notes))

\* Two events of one timestamp have both been mixed.
TwoAtOnce ==
    /\ entry = "generate" /\ pc = "mix" /\ Positive
    /\ Len(commits) = 2 /\ Len(notes) = 2 /\ audio # << >>
    /\ commits[1].timestamp = commits[2].timestamp

\* The peak of the mix over the indices of the two notes is greater than
\* the peak of note n alone.
PeakAbove(n) ==
    \E k \in 1..Len(audio) :
        /\ Covers(n, k - 1)
        /\ \A j \in 1..Len(audio) :
               Covers(n, j - 1) => FLt(FAbs(NoteAlone(n, j - 1)), FAbs(audio[k]))

\* C5 as claimed: two events of one timestamp get the same start_sample,
\* their notes are summed, and the peak there is greater than that of
\* either note alone.
C5_PeakGreater ==
    TwoAtOnce => SameStart /\ Summed /\ PeakAbove(1) /\ PeakAbove(2)

\* The step has added the note to every sample it covers and left the
\* others as they were.
AddsNote(note) ==
    /\ Len(audio') = Len(audio)
    /\ \A k \in 1..Len(audio) :
           audio'[k] = IF CoveredBy(note, k - 1)
                       THEN FAdd(audio[k], SampleOf(note, k - 1))
                       ELSE audio[k]

\* C5, amended: events of one timestamp get the same start_sample and their
\* notes are summed into the buffer, not replaced: before normalization the
\* value at each index two such notes cover is the sum of their samples,
\* and every note of a longer list is added to what the buffer holds.
C5_NotesSummed ==
    /\ []((entry = "generate" /\ pc = "mix") =>
              SameStart /\ (Len(commits) = 2 => Summed))
    /\ [][(pc = "mix" /\ Len(notes') = Len(notes) + 1) =>
              AddsNote(notes'[Len(notes')])]_vars

\* Two notes of one timestamp overlap and each has added to the sample.
C5_Witness ==
    /\ TwoAtOnce
    /\ notes[1].start_sample = notes[2].start_sample
    /\ \E k \in 1..Len(audio) :
           /\ SumOfNotes(k - 1, 1) # FZero
           /\ audio[k] # SumOfNotes(k - 1, 1)
           /\ audio[k] # NoteAlone(2, k - 1)

EnvelopeCalled == entry = "_adsr_envelope"

\* What both statements of C6 share: 0.0 at t = 0, 1.0 from the attack and
\* from the decay at attack_time, 0.7 from the sustain at
\* attack_time + decay_time and from the release at d - release_time.
ExactAt(t, d, value, attack, decay, release) ==
    /\ t = FZero => value = FZero
    /\ t = attack => AttackValue(t, attack) = One /\ value = One
    /\ t = FAdd(attack, decay) => value = sustain_level
    /\ t = FSub(d, release) => value = sustain_level

\* C6 as claimed: the envelope is exactly 0.0 at t = 0 and at t = d and
\* takes exactly 1.0, 0.7 and 0.7 at its three phase boundaries.
C6_ExactEnvelope ==
    EnvelopeCalled =>
        /\ ExactAt(env.t, env.duration, env.value, attack_time(env.duration),
                   decay_time(env.duration), release_time(env.duration))
        /\ env.t = env.duration => env.value = FZero

\* Where the envelope is off by no more than its floating-point rounding:
\* at t = d it is within (d / release_time + 1) units of roundoff of 0.0,
\* and the decay ends within four of 0.7.
RoundedAt(t, d, value, attack, decay, release) ==
    /\ t = d =>
           FLe(FMul(FMul(FAbs(value), release), FromInt(2^Precision)),
               FAdd(d, release))
    /\ t = FAdd(attack, decay) =>
           FLe(FAbs(FSub(DecayValue(t, attack, decay), sustain_level)),
               Lit(1, 2^(Precision - 2)))

\* C6, amended: the envelope is exactly 0.0 at t = 0, exactly 1.0 at
\* attack_time and exactly 0.7 at attack_time + decay_time and at
\* d - release_time; at t = d it is 0.0 only up to floating-point rounding, as
\* is the value the decay phase ends on.
C6_EnvelopeUpToRounding ==
    EnvelopeCalled =>
        /\ ExactAt(env.t, env.duration, env.value, attack_time(env.duration),
                   decay_time(env.duration), release_time(env.duration))
        /\ RoundedAt(env.t, env.duration, env.value, attack_time(env.duration),
                     decay_time(env.duration), release_time(env.duration))

\* The envelope has been evaluated at the end of a note and is not 0.0.
C6_Witness ==
    EnvelopeCalled /\ env.t = env.duration /\ env.value # FZero

\* C7 as claimed: for a non-empty list and positive settings the render
\* returns a buffer and never raises.
C7_NeverRaises ==
    (entry = "generate" /\ commits # << >> /\ Positive) => pc # "raised"

\* C8 as claimed: with a non-positive sample_rate or duration_per_commit
\* the call fails before it renders: it raises, and no buffer is allocated
\* or mixed and no output is produced.
C8_FailsFast ==
    (entry = "generate" /\ ~Positive) =>
        /\ pc = "raised"
        /\ audio = << >> /\ notes = << >>
        /\ frames = << >> /\ output = "none"

\* sample clamped to [-1.0, 1.0]
Clamped(sample) ==
    IF FLt(One, sample) THEN One
    ELSE IF FLt(sample, FNeg(One)) THEN FNeg(One)
    ELSE sample

WavWrittenFor(method) == entry = method /\ sample_rate > 0

\* One frame per sample, in order, each within [-32767, 32767].
FramesInOrder ==
    /\ pc = "done" /\ error = "none"
    /\ Len(frames) = Len(audio)
    /\ \A k \in 1..Len(frames) : -32767 <= frames[k] /\ frames[k] <= 32767

\* C9 as claimed: _write_wav clamps every sample to [-1.0, 1.0] and writes
\* round(clamped * 32767), within [-32767, 32767], one frame per sample in
\* order.
C9_EncodedRounded ==
    WavWrittenFor("_write_wav") =>
        /\ FramesInOrder
        /\ \A k \in 1..Len(frames) :
               frames[k] = RoundInt(FMul(Clamped(audio[k]), FromInt(32767)))

\* v is x truncated toward zero.
TruncatedTo(v, x) ==
    /\ v # 0 => Sgn(v) = Sgn(x[1])
    /\ FLe(FromInt(Abs(v)), FAbs(x))
    /\ FLt(FAbs(x), FromInt(Abs(v) + 1))

\* C9, amended: _write_wav clamps every sample to [-1.0, 1.0] and writes
\* int(clamped * 32767), the product truncated toward zero and not
\* rounded, within [-32767, 32767], one frame per sample in order.
C9_EncodedTruncated ==
    (WavWrittenFor("_write_wav") \/ (WavWrittenFor("generate") /\ pc = "done"))
        => /\ FramesInOrder
           /\ \A k \in 1..Len(frames) :
                  TruncatedTo(frames[k],
                              FMul(Clamped(audio[k]), FromInt(32767)))

\* _write_wav has written a sample beyond 1.0 as 32767 and one whose
\* product has a fraction as the integer below it.
C9_Witness ==
    /\ WavWrittenFor("_write_wav") /\ pc = "done" /\ Len(frames) = 2
    /\ FLt(One, audio[1]) /\ frames[1] = 32767
    /\ frames[2] # RoundInt(FMul(audio[2], FromInt(32767)))

\* The second call of generate() has ended as the first did.
SameAsFirst ==
    (calls = 1 /\ entry = "generate" /\ pc \in {"done", "raised"}) =>
        /\ audio = first.audio
        /\ frames = first.frames
        /\ output = first.output
        /\ error = first.error
        /\ pc = first.pc

\* C10: the render is deterministic and keeps nothing from one call to the
\* next: a second call with the same list and settings ends with the same
\* buffer, frames and outcome as the first, and no step of a call changes
\* the list or the settings of the generator.
C10_Deterministic ==
    /\ []SameAsFirst
    /\ [][(pc # "idle" \/ pc' # "idle") =>
              (commits' = commits /\ config' = config)]_vars

\* A second call has rendered the same audible buffer as the first.
C10_Witness ==
    /\ calls = 1 /\ entry = "generate" /\ pc = "done"
    /\ commits # << >>
    /\ audio = first.audio /\ frames = first.frames
    /\ \E k \in 1..Len(audio) : audio[k] # FZero

\* The buffer is the mixed buffer rescaled once by its peak P: divided by P
\* when P exceeds 1.0, which brings the peak to exactly 1.0, and left as it
\* is otherwise.
RescaledBy(P) ==
    /\ Len(audio) = Len(mixed)
    /\ IF FLt(One, P)
       THEN /\ \A k \in 1..Len(audio) : audio[k] = FDiv(mixed[k], P)
            /\ \A k \in 1..Len(audio) : FLe(FAbs(audio[k]), One)
            /\ \E k \in 1..Len(audio) : FAbs(audio[k]) = One
       ELSE audio = mixed

\* C11: normalization is one global rescale after all events are mixed: when
\* the peak P of the mixed buffer exceeds 1.0 every returned sample is the
\* mixed sample divided by P and the returned peak is exactly 1.0; when
\* P <= 1.0, P = 0 included, the returned buffer is the mixed buffer.
C11_GlobalRescale ==
    Rendered => mixed # << >> /\ RescaledBy(PeakOf(mixed))

\* A mixed buffer of peak above 1.0 has been returned with peak 1.0, its
\* quieter samples divided by the same peak.
C11_Witness ==
    /\ Rendered /\ Positive /\ pc = "done"
    /\ FLt(One, PeakOf(mixed))
    /\ \E k \in 1..Len(audio) : FAbs(audio[k]) = One
    /\ \E k \in 1..Len(audio) : audio[k] # FZero /\ FLt(FAbs(audio[k]), One)

\* A call of generate() with commits holds its buffer.
Allocated ==
    entry = "generate" /\ commits # << >> /\ pc \in {"mix", "write", "done"}

\* The step has changed no sample outside the indices
\* start_sample .. start_sample + note_samples - 1 of the note, all of them
\* within the buffer.
WritesWithin(note) ==
    /\ Len(audio') = Len(audio)
    /\ \A k \in 1..Len(audio) :
           audio'[k] # audio[k] =>
               /\ 0 <= note.start_sample
               /\ note.start_sample <= k - 1
               /\ k - 1 < note.start_sample + note.note_samples
               /\ k - 1 < total_samples

\* C12: every write of the mixing loop goes to an index start_sample + i
\* with 0 <= start_sample + i < total_samples: a note that runs past the
\* end of the buffer is cut there, never wrapped to the beginning, and the
\* buffer has total_samples samples from its allocation to its return.
C12_WritesInRange ==
    /\ []((Allocated /\ Positive) => Len(audio) = total_samples)
    /\ [][(pc = "mix" /\ Len(notes') = Len(notes) + 1) =>
              WritesWithin(notes'[Len(notes')])]_vars

\* A note that starts two samples before the end of the buffer has been
\* cut there: its two samples are in, the first sample of the buffer is
\* as it was.
C12_Witness ==
    /\ Allocated /\ Positive /\ pc = "mix" /\ Len(notes) = 2
    /\ notes[2].start_sample < total_samples
    /\ notes[2].start_sample + notes[2].note_samples > total_samples
    /\ audio[total_samples] # FZero
    /\ audio[1] = SumOfNotes(0, 1)

\* The list has two distinct timestamps; commit k has the greatest.
TwoTimes == \E i, j \in 1..Len(commits) :
                commits[i].timestamp # commits[j].timestamp

AtMaxTime(k) ==
    \A j \in 1..Len(commits) : commits[j].timestamp <= commits[k].timestamp

\* Where the notes computed so far start.
StartsAsClaimed ==
    \A k \in 1..Len(notes) :
        /\ (TwoTimes /\ AtMaxTime(k)) => notes[k].start_sample = total_samples
        /\ ~TwoTimes => notes[k].start_sample = 0

\* C13: when the list has two distinct timestamps, every event at max_time
\* starts at total_samples and its note adds nothing to the buffer, whatever
\* its activity; when all timestamps are equal every event starts at
\* sample 0.
C13_LastEventSilent ==
    /\ [](entry = "generate" => StartsAsClaimed)
    /\ [][(pc = "mix" /\ Len(notes') = Len(notes) + 1 /\ TwoTimes
           /\ AtMaxTime(Len(notes'))) => audio' = audio]_vars

\* The note of the latest of two events, the one of the greater activity,
\* has been mixed and the buffer holds the first note alone.
C13_Witness ==
    /\ Allocated /\ Positive /\ pc = "mix"
    /\ Len(commits) = 2 /\ Len(notes) = 2
    /\ commits[1].timestamp < commits[2].timestamp
    /\ notes[2].start_sample = total_samples /\ total_samples > 0
    /\ notes[2].volume # FZero
    /\ \E k \in 1..Len(audio) : audio[k] # FZero
    /\ \A k \in 1..Len(audio) : audio[k] = SumOfNotes(k - 1, 1)

====
